---- MODULE Spec2Model ----
(***************************************************************************)
(* Model of keymaker: Base58 encoding (base58.rs), BIP32 extended-key      *)
(* derivation (bip32.rs), BIP85 child mnemonics (bip85.rs), the EIP-55     *)
(* address display (eth.rs) and the bit repacker BitIter (util.rs).        *)
(*                                                                         *)
(* Characters are modelled by their ASCII codes, strings by sequences of   *)
(* ASCII codes, byte buffers by sequences of 0..255.                       *)
(***************************************************************************)
EXTENDS Integers, Sequences, FiniteSets, TLC

VARIABLES
    \* base58::encode: the input, the number of bytes the fold has consumed, the
    \* digit buffer a and the mark h of fold_mut's accumulator, the closure's j and
    \* x, whether saturating_sub has clamped at 0 in this call of the closure, the
    \* position in encode and the returned string.
    input, pos, a, h, j, x, sat, pc, out,
    \* Extended keys: whether the build checks arithmetic overflow ("debug") or
    \* wraps ("release"), the key the caller holds, and the last call made on a
    \* key: its name, receiver, argument and return value.
    build, key, last,
    \* Display for Address: the 20 bytes, the lowercase hex string buf, the hex
    \* string hash of its Keccak-256 digest, the characters written to the
    \* formatter f, the number of character pairs the loop has taken, and the
    \* position in fmt.
    addr, buf, hash, f, taken, fpc,
    \* BitIter<I, N>: the widths SIZE of an input item and N of a group, the
    \* items of the underlying iterator and how many it has yielded (iter), the
    \* fields read and buffer (64 bits, most significant first), and what the
    \* calls of next() have returned so far.
    SIZE, N, items, iter, read, buffer, rets

b58vars == <<input, pos, a, h, j, x, sat, pc, out>>
keyvars == <<build, key, last>>
ethvars == <<addr, buf, hash, f, taken, fpc>>
bitvars == <<SIZE, N, items, iter, read, buffer, rets>>
vars == <<input, pos, a, h, j, x, sat, pc, out, build, key, last,
          addr, buf, hash, f, taken, fpc,
          SIZE, N, items, iter, read, buffer, rets>>

(***************************************************************************)
(* Bounds of the model.                                                    *)
(***************************************************************************)
MaxLen == 3
MaxSeed == 23
MaxDepth == 2
MaxPathLen == 2
MaxAddrSeed == 15
MaxItems == 3
MaxAfterNone == 2

\* Byte values the inputs of base58::encode are drawn from.
ByteValues == {0, 1, 32, 57, 58, 128, 255}

RECURSIVE SeqsUpTo(_, _)
SeqsUpTo(S, n) ==
    IF n = 0 THEN {<<>>}
    ELSE LET shorter == SeqsUpTo(S, n - 1)
         IN  shorter \cup {Append(s, e) : s \in {t \in shorter : Len(t) = n - 1}, e \in S}

(***************************************************************************)
(* base58.rs                                                               *)
(***************************************************************************)
\* b"123456789ABCDEFGHJKLMNPQRSTUVWXYZabcdefghijkmnopqrstuvwxyz"
ALPHABET ==
    <<49, 50, 51, 52, 53, 54, 55, 56, 57,
      65, 66, 67, 68, 69, 70, 71, 72,
      74, 75, 76, 77, 78,
      80, 81, 82, 83, 84, 85, 86, 87, 88, 89, 90,
      97, 98, 99, 100, 101, 102, 103, 104, 105, 106, 107,
      109, 110, 111, 112, 113, 114, 115, 116, 117, 118, 119, 120, 121, 122>>

\* A mutation of BufLen: one digit per input byte.
BufLenShort(n) == n

\* let l = input.as_ref().len() * 138 / 100;
BufLen(n) == (n * 138) \div 100

\* j.saturating_sub(1)
SaturatingSub(n) == IF n = 0 THEN 0 ELSE n - 1

\* .skip_while(|v| *v == 0)
RECURSIVE SkipWhileZero(_)
SkipWhileZero(s) ==
    IF s = <<>> THEN <<>>
    ELSE IF Head(s) = 0 THEN SkipWhileZero(Tail(s))
    ELSE s

\* .map(|v| ALPHABET[v as usize] as char)
MapAlphabet(s) == [k \in 1..Len(s) |-> ALPHABET[s[k] + 1]]

\* The state of encode before the fold: (vec![0; l + 1], l), nothing consumed.
EncodeInit(bytes) ==
    /\ input = bytes
    /\ pos = 0
    /\ a = [k \in 1..(BufLen(Len(bytes)) + 1) |-> 0]
    /\ h = BufLen(Len(bytes))
    /\ j = 0
    /\ x = 0
    /\ sat = FALSE
    /\ out = <<>>
    /\ pc = "fold"

\* fold_mut hands the next input byte to the closure: x = *v as u32, j = a.len() - 1.
FoldItem ==
    /\ pc = "fold"
    /\ pos < Len(input)
    /\ pos' = pos + 1
    /\ x' = input[pos + 1]
    /\ j' = Len(a) - 1
    /\ sat' = FALSE
    /\ pc' = "while"
    /\ UNCHANGED <<input, a, h, out>>
    /\ UNCHANGED keyvars
    /\ UNCHANGED ethvars
    /\ UNCHANGED bitvars

\* One iteration of `while j > *h || x != 0`. The vector a is 0-based in the
\* source, so a[j] is a[j + 1] here. sat records that saturating_sub was applied
\* to 0 in this call of the closure (index 0 has been written).
WhileBody ==
    /\ pc = "while"
    /\ (j > h \/ x # 0)
    /\ LET x1 == x + 256 * a[j + 1]
       IN  /\ a' = [a EXCEPT ![j + 1] = x1 % 58]
           /\ x' = x1 \div 58
    /\ j' = SaturatingSub(j)
    /\ sat' = (sat \/ j = 0)
    /\ UNCHANGED <<input, pos, h, pc, out>>
    /\ UNCHANGED keyvars
    /\ UNCHANGED ethvars
    /\ UNCHANGED bitvars

\* The loop condition is false: *h = j, and the closure returns.
WhileExit ==
    /\ pc = "while"
    /\ ~(j > h \/ x # 0)
    /\ h' = j
    /\ pc' = "fold"
    /\ UNCHANGED <<input, pos, a, j, x, sat, out>>
    /\ UNCHANGED keyvars
    /\ UNCHANGED ethvars
    /\ UNCHANGED bitvars

\* The input is exhausted: .0.into_iter().skip_while(..).map(..).collect()
Collect ==
    /\ pc = "fold"
    /\ pos = Len(input)
    /\ out' = MapAlphabet(SkipWhileZero(a))
    /\ pc' = "done"
    /\ UNCHANGED <<input, pos, a, h, j, x, sat>>
    /\ UNCHANGED keyvars
    /\ UNCHANGED ethvars
    /\ UNCHANGED bitvars

\* No key is in use while encode is studied.
KeyIdle ==
    /\ build = "release"
    /\ key = <<>>
    /\ last = <<>>

\* No address is being displayed.
EthIdle ==
    /\ addr = <<>>
    /\ buf = <<>>
    /\ hash = <<>>
    /\ f = <<>>
    /\ taken = 0
    /\ fpc = "idle"

\* No BitIter is in use.
BitsIdle ==
    /\ SIZE = 8
    /\ N = 8
    /\ items = <<>>
    /\ iter = 0
    /\ read = 0
    /\ buffer = <<>>
    /\ rets = <<>>

InitB58 ==
    /\ \E bytes \in SeqsUpTo(ByteValues, MaxLen) : EncodeInit(bytes)
    /\ KeyIdle
    /\ EthIdle
    /\ BitsIdle

NextB58 == FoldItem \/ WhileBody \/ WhileExit \/ Collect

SpecB58 == InitB58 /\ [][NextB58]_vars

(***************************************************************************)
(* bip32.rs: values.                                                       *)
(*                                                                         *)
(* A u32 is the record [hi, lo] of its top bit and its low 31 bits, so     *)
(* that 32-bit arithmetic is exact. Option values are tagged records; a    *)
(* panic is the third outcome of a call.                                   *)
(***************************************************************************)
U32(hi, lo) == [hi |-> hi, lo |-> lo]

\* pub const HARDENED_OFFSET: u32 = 1 << 31;
HARDENED_OFFSET == U32(1, 0)

None == [tag |-> "None"]
Panic == [tag |-> "Panic"]
Some(v) == [tag |-> "Some", val |-> v]

\* The largest depth a u8 holds.
U8Max == 255

\* a + b on u32: the sum modulo 2^32, and whether it overflowed.
AddU32(m, n) ==
    LET carry == IF m.lo > 2147483647 - n.lo THEN 1 ELSE 0
        lo    == IF carry = 1 THEN m.lo - (2147483647 - n.lo) - 1 ELSE m.lo + n.lo
        top   == m.hi + n.hi + carry
    IN  [val |-> U32(top % 2, lo), overflow |-> top >= 2]

\* i.to_be_bytes(), as the two parts of the number.
ToBeBytes(i) == <<i.hi, i.lo>>

(***************************************************************************)
(* The primitives of the k256, hmac, sha2 and ripemd crates, on a small    *)
(* group: scalars are the integers modulo CurveOrder, points the powers of *)
(* Generator modulo FieldPrime (a group of order CurveOrder, whose         *)
(* identity 1 is no public key), and a digest is a mixing function of its  *)
(* input. The left half of an HMAC ranges over 0..ScalarSpace-1, which     *)
(* exceeds the curve order as 2^256 exceeds the order of secp256k1.        *)
(***************************************************************************)
CurveOrder == 5
FieldPrime == 11
Generator == 3
ScalarSpace == 6
ChainCodes == 3
Fingerprints == 4

Identity == 1

\* k * G
RECURSIVE ScalarMulG(_)
ScalarMulG(k) == IF k = 0 THEN Identity ELSE (Generator * ScalarMulG(k - 1)) % FieldPrime

\* The sum of two points.
PointAdd(P, Q) == (P * Q) % FieldPrime

RECURSIVE Digest(_, _)
Digest(acc, data) ==
    IF data = <<>> THEN acc
    ELSE Digest((acc * 31 + (Head(data) % 1009) + 7) % 1009, Tail(data))

\* Hmac::<Sha512>: the 64 bytes split into res[..32] (IL) and res[32..] (IR).
HmacSha512(k, data) ==
    LET d == Digest(1, <<k>> \o data)
    IN  [IL |-> d % ScalarSpace, IR |-> (d \div ScalarSpace) % ChainCodes]

\* ScalarPrimitive::from_slice: an error for a value that is not below the order.
ScalarFromSlice(v) == IF v < CurveOrder THEN Some(v) ELSE None

\* SecretKey::from_slice: an error for zero and for a value not below the order.
SecretKeyFromSlice(v) ==
    IF v > 0 /\ v < CurveOrder THEN Some([kind |-> "secret", v |-> v]) ELSE None

\* SecretKey::public_key
SecretKey_public_key(k) == [kind |-> "public", v |-> ScalarMulG(k.v)]

(***************************************************************************)
(* bip32.rs: impl Key for SecretKey, impl Key for PublicKey.               *)
(***************************************************************************)
\* 0x00 followed by the 32 bytes of the scalar.
SecretKey_serialize(k) == <<0, k.v>>

\* The SEC1 compressed point.
PublicKey_serialize(k) == <<2, k.v>>

\* A mutation of SecretKey_serialize_for_child: the private serialization for
\* every index.
SecretKey_serialize_for_child_private(k, i) == Some(SecretKey_serialize(k))

SecretKey_serialize_for_child(k, i) ==
    IF i.hi = 0
    THEN Some(PublicKey_serialize(SecretKey_public_key(k)))
    ELSE Some(SecretKey_serialize(k))

\* A mutation of PublicKey_serialize_for_child: the point for every index.
PublicKey_serialize_for_child_any(k, i) == Some(PublicKey_serialize(k))

PublicKey_serialize_for_child(k, i) ==
    IF i.hi = 0 THEN Some(PublicKey_serialize(k)) ELSE None

PublicKey_fingerprint(k) == Digest(2, PublicKey_serialize(k)) % Fingerprints

SecretKey_fingerprint(k) == PublicKey_fingerprint(SecretKey_public_key(k))

SecretKey_add_scalar(k, s) ==
    LET sum == (s + k.v) % CurveOrder
    IN  IF sum = 0 THEN None ELSE Some([kind |-> "secret", v |-> sum])

\* PublicKey::from_affine is an error for the identity.
PublicKey_add_scalar(k, s) ==
    LET point == PointAdd(ScalarMulG(s), k.v)
    IN  IF point = Identity THEN None ELSE Some([kind |-> "public", v |-> point])

serialize_for_child(k, i) ==
    IF k.kind = "secret" THEN SecretKey_serialize_for_child(k, i)
    ELSE PublicKey_serialize_for_child(k, i)

fingerprint(k) ==
    IF k.kind = "secret" THEN SecretKey_fingerprint(k) ELSE PublicKey_fingerprint(k)

add_scalar(k, s) ==
    IF k.kind = "secret" THEN SecretKey_add_scalar(k, s) ELSE PublicKey_add_scalar(k, s)

(***************************************************************************)
(* bip32.rs: ExtKey.                                                       *)
(***************************************************************************)
ExtKey(depth, number, fp, chain_code, k) ==
    [depth |-> depth, number |-> number, fingerprint |-> fp,
     chain_code |-> chain_code, key |-> k]

\* self.depth + 1 on u8: a panic where the build checks overflow, else the sum
\* modulo 2^8.
DepthPlusOne(d) ==
    IF d = U8Max
    THEN IF build = "debug" THEN Panic ELSE Some(0)
    ELSE Some(d + 1)

\* ExtKey::derive. The `?` operators return None in the order of the source; the
\* struct literal evaluates depth first.
derive(self, i) ==
    LET ser == serialize_for_child(self.key, i)
    IN  IF ser.tag = "None" THEN None
        ELSE
        LET res    == HmacSha512(self.chain_code, ser.val \o ToBeBytes(i))
            scalar == ScalarFromSlice(res.IL)
        IN  IF scalar.tag = "None" THEN None
            ELSE
            LET k == add_scalar(self.key, scalar.val)
            IN  IF k.tag = "None" THEN None
                ELSE
                LET depth == DepthPlusOne(self.depth)
                IN  IF depth.tag = "Panic" THEN Panic
                    ELSE Some(ExtKey(depth.val, i, fingerprint(self.key), res.IR, k.val))

\* ExtKey::<SecretKey>::from_seed
from_seed(seed) ==
    LET res == HmacSha512(0, <<seed>>)
        k   == SecretKeyFromSlice(res.IL)
    IN  IF k.tag = "None" THEN None
        ELSE Some(ExtKey(0, U32(0, 0), 0, res.IR, k.val))

\* ExtKey::<SecretKey>::public_key
public_key(self) ==
    ExtKey(self.depth, self.number, self.fingerprint, self.chain_code,
           SecretKey_public_key(self.key))


\* A mutation of derive_path: an index whose derivation fails is skipped.
RECURSIVE derive_path_skipping(_, _)
derive_path_skipping(self, path) ==
    IF path = <<>> THEN [ret |-> Some(self), calls |-> <<>>]
    ELSE LET r    == derive(self, Head(path))
             rest == derive_path_skipping(IF r.tag = "Some" THEN r.val ELSE self, Tail(path))
         IN  [ret |-> rest.ret, calls |-> <<Head(path)>> \o rest.calls]

\* ExtKey::derive_path: the loop over the path from a clone of self, `?` returning
\* at the first derivation that is not Some. calls lists the indices derive was
\* called with.
RECURSIVE derive_path(_, _)
derive_path(self, path) ==
    IF path = <<>> THEN [ret |-> Some(self), calls |-> <<>>]
    ELSE LET r == derive(self, Head(path))
         IN  IF r.tag # "Some" THEN [ret |-> r, calls |-> <<Head(path)>>]
             ELSE LET rest == derive_path(r.val, Tail(path))
                  IN  [ret |-> rest.ret, calls |-> <<Head(path)>> \o rest.calls]

(***************************************************************************)
(* bip85.rs                                                                *)
(***************************************************************************)
\* H + n on u32: a panic where the build checks overflow, else the sum modulo 2^32.
HPlus(n) ==
    LET sum == AddU32(HARDENED_OFFSET, n)
    IN  IF sum.overflow /\ build = "debug" THEN Panic ELSE Some(sum.val)

\* &[H + 83696968, H + 39, H + 0, H + 24, H + i]
Bip85Path(i) ==
    LET last_index == HPlus(i)
    IN  IF last_index.tag = "Panic" THEN Panic
        ELSE Some(<<HPlus(U32(0, 83696968)).val, HPlus(U32(0, 39)).val,
                    HPlus(U32(0, 0)).val, HPlus(U32(0, 24)).val, last_index.val>>)

\* Entropy::entropy: HMAC-SHA512 keyed "bip-entropy-from-k" over the scalar.
entropy(self) == HmacSha512(7, SecretKey_serialize(self.key))

\* Mnemonic::from_entropy, of the bip39 module.
Mnemonic_from_entropy(e) == [mnemonic |-> e]

\* Bip85::child_mnemonic for ExtKey<SecretKey>
child_mnemonic(self, i) ==
    IF self.depth > 0 THEN [ret |-> None, calls |-> <<>>]
    ELSE LET path == Bip85Path(i)
         IN  IF path.tag = "Panic" THEN [ret |-> Panic, calls |-> <<>>]
             ELSE LET k == derive_path(self, path.val)
                  IN  IF k.ret.tag # "Some" THEN k
                      ELSE [ret |-> Some(Mnemonic_from_entropy(entropy(k.ret.val).IL)),
                            calls |-> k.calls]


(***************************************************************************)
(* The callers of the extended-key operations. A call records in last its  *)
(* name, receiver, argument and return value, and the indices derive was   *)
(* called with while it ran; the caller keeps the key a successful         *)
(* derivation returns, as the tests and main.rs do, and a process that has *)
(* panicked makes no further call.                                         *)
(***************************************************************************)
Call(op, self, arg, ret, calls) ==
    [op |-> op, self |-> self, arg |-> arg, ret |-> ret, calls |-> calls]

Running == last.ret.tag # "Panic"

\* Indices the callers derive with: 0, 1, 2^31 - 1, 2^31, 2^31 + 1, 2^32 - 1.
Indices ==
    {U32(0, 0), U32(0, 1), U32(0, 2147483647),
     U32(1, 0), U32(1, 1), U32(1, 2147483647)}

\* The root keys from_seed makes of the seeds 0..MaxSeed; the build is either one.
InitKey ==
    /\ build \in {"debug", "release"}
    /\ \E seed \in 0..MaxSeed :
        /\ from_seed(seed).tag = "Some"
        /\ key = from_seed(seed).val
        /\ last = Call("from_seed", from_seed(seed).val, U32(0, seed), from_seed(seed), <<>>)

\* No string is being encoded while the keys are studied.
B58Idle == EncodeInit(<<>>)

\* key = key.derive(i)
Derive(i) ==
    /\ Running
    /\ LET ret == derive(key, i)
       IN  /\ last' = Call("derive", key, i, ret, <<i>>)
           /\ key' = IF ret.tag = "Some" THEN ret.val ELSE key
    /\ UNCHANGED build
    /\ UNCHANGED b58vars
    /\ UNCHANGED ethvars
    /\ UNCHANGED bitvars

\* key.public_key(), on a private key
ToPublic ==
    /\ Running
    /\ key.key.kind = "secret"
    /\ key' = public_key(key)
    /\ last' = Call("public_key", key, U32(0, 0), Some(public_key(key)), <<>>)
    /\ UNCHANGED build
    /\ UNCHANGED b58vars
    /\ UNCHANGED ethvars
    /\ UNCHANGED bitvars

DeriveAny == \E i \in Indices : Derive(i)

Init == InitKey /\ B58Idle /\ EthIdle /\ BitsIdle

Next == DeriveAny \/ ToPublic

Spec == Init /\ [][Next]_vars


\* Indices the paths of derive_path are made of: 0, 1, 2^31, 2^31 + 1.
PathIndices == {U32(0, 0), U32(0, 1), U32(1, 0), U32(1, 1)}

\* key = key.derive_path(path), on a key less than MaxDepth deep
DerivePath(path) ==
    /\ Running
    /\ key.depth < MaxDepth
    /\ LET r == derive_path(key, path)
       IN  /\ last' = Call("derive_path", key, path, r.ret, r.calls)
           /\ key' = IF r.ret.tag = "Some" THEN r.ret.val ELSE key
    /\ UNCHANGED build
    /\ UNCHANGED b58vars
    /\ UNCHANGED ethvars
    /\ UNCHANGED bitvars

DerivePathAny == \E path \in SeqsUpTo(PathIndices, MaxPathLen) : DerivePath(path)

SpecPath == Init /\ [][DerivePathAny \/ ToPublic]_vars

\* key = key.derive(i), on a key less than MaxDepth deep
DeriveShallow(i) ==
    /\ key.depth < MaxDepth
    /\ Derive(i)

\* key.child_mnemonic(i), on a private key
ChildMnemonic(i) ==
    /\ Running
    /\ key.key.kind = "secret"
    /\ LET r == child_mnemonic(key, i)
       IN  last' = Call("child_mnemonic", key, i, r.ret, r.calls)
    /\ UNCHANGED <<build, key>>
    /\ UNCHANGED b58vars
    /\ UNCHANGED ethvars
    /\ UNCHANGED bitvars

DeriveShallowAny == \E i \in Indices : DeriveShallow(i)

ChildMnemonicAny == \E i \in Indices : ChildMnemonic(i)

SpecBip85 == Init /\ [][DeriveShallowAny \/ ChildMnemonicAny]_vars


(***************************************************************************)
(* eth.rs: impl fmt::Display for Address.                                  *)
(***************************************************************************)
\* pub struct Address([u8; 20]);
AddressLen == 20

\* The hex crate's encode: two lowercase hex characters per byte.
HexChar(d) == IF d < 10 THEN 48 + d ELSE 87 + d

HexEncode(bytes) ==
    [k \in 1..(2 * Len(bytes)) |->
        IF k % 2 = 1 THEN HexChar(bytes[(k + 1) \div 2] \div 16)
        ELSE HexChar(bytes[k \div 2] % 16)]

\* Keccak256 of a string: 32 bytes, each a mixing function of the whole input.
Keccak256(data) == [k \in 1..32 |-> Digest(k, data) % 256]

\* char::to_ascii_uppercase
ToAsciiUppercase(c) == IF c >= 97 /\ c <= 122 THEN c - 32 ELSE c

\* A mutation of HashSaysUpper: only the hash digits a..f.
HashSaysUpperLetters(hc) == hc > 57

\* if h as u8 > 55
HashSaysUpper(hc) == hc > 55

Min(m, n) == IF m < n THEN m ELSE n

\* The addresses displayed: AddressLen bytes filled from a seed.
AddressOf(seed) == [k \in 1..AddressLen |-> (seed * 37 + k * k * (2 * seed + 11)) % 256]

InitEth ==
    /\ \E seed \in 0..MaxAddrSeed : addr = AddressOf(seed)
    /\ buf = <<>>
    /\ hash = <<>>
    /\ f = <<>>
    /\ taken = 0
    /\ fpc = "start"
    /\ B58Idle
    /\ KeyIdle
    /\ BitsIdle

\* buf, hash, and f.write_str("0x")
FmtStart ==
    /\ fpc = "start"
    /\ buf' = HexEncode(addr)
    /\ hash' = HexEncode(Keccak256(HexEncode(addr)))
    /\ f' = <<48, 120>>
    /\ fpc' = "loop"
    /\ UNCHANGED <<addr, taken>>
    /\ UNCHANGED b58vars
    /\ UNCHANGED keyvars
    /\ UNCHANGED bitvars

\* One iteration of `for (mut c, h) in buf.chars().zip(hash.chars())`
FmtChar ==
    /\ fpc = "loop"
    /\ taken < Min(Len(buf), Len(hash))
    /\ LET c  == buf[taken + 1]
           hc == hash[taken + 1]
       IN  f' = Append(f, IF HashSaysUpper(hc) THEN ToAsciiUppercase(c) ELSE c)
    /\ taken' = taken + 1
    /\ UNCHANGED <<addr, buf, hash, fpc>>
    /\ UNCHANGED b58vars
    /\ UNCHANGED keyvars
    /\ UNCHANGED bitvars

\* The zip is exhausted: Ok(())
FmtReturn ==
    /\ fpc = "loop"
    /\ taken = Min(Len(buf), Len(hash))
    /\ fpc' = "done"
    /\ UNCHANGED <<addr, buf, hash, f, taken>>
    /\ UNCHANGED b58vars
    /\ UNCHANGED keyvars
    /\ UNCHANGED bitvars

SpecEth == InitEth /\ [][FmtStart \/ FmtChar \/ FmtReturn]_vars


(***************************************************************************)
(* util.rs: BitIter. A usize is a sequence of WordBits bits, the most      *)
(* significant first, so that the 64-bit shifts are exact.                 *)
(***************************************************************************)
\* The width of usize, as in `64 - self.read`.
WordBits == 64

ZeroWord == [k \in 1..WordBits |-> 0]

\* The w low bits of v, most significant first.
BitsOf(v, w) == [k \in 1..w |-> (v \div (2 ^ (w - k))) % 2]

\* The number a sequence of bits denotes.
RECURSIVE BitsValue(_)
BitsValue(bits) ==
    IF bits = <<>> THEN 0
    ELSE 2 * BitsValue(SubSeq(bits, 1, Len(bits) - 1)) + bits[Len(bits)]

\* Bits::bits(self) as a usize: an item of at most w bits.
ToWord(v, w) == [k \in 1..WordBits |-> IF k <= WordBits - w THEN 0
                                       ELSE (v \div (2 ^ (WordBits - k))) % 2]

\* word << s
Shl(word, s) == [k \in 1..WordBits |-> IF k + s <= WordBits THEN word[k + s] ELSE 0]

\* word >> s
Shr(word, s) == [k \in 1..WordBits |-> IF k - s >= 1 THEN word[k - s] ELSE 0]

\* word | other
BitOr(word, other) == [k \in 1..WordBits |-> IF word[k] = 1 \/ other[k] = 1 THEN 1 ELSE 0]

\* A mutation of PlaceItem: the item is put at the top of the buffer, wherever
\* read stands.
PlaceItemAtTop(v, rd) == Shl(ToWord(v, SIZE), WordBits - SIZE)

\* self.iter.next()?.bits() << (64 - self.read), read already advanced
PlaceItem(v, rd) == Shl(ToWord(v, SIZE), WordBits - rd)

\* The instantiations: bytes into 11-bit groups (bits::<11>() over &u8) and
\* 11-bit groups into bytes (bytes() over BitsN<11>).
Widths == {<<8, 11>>, <<11, 8>>}

\* Item values of a width: all zeros, one, alternating bits, all ones.
ItemValues(w) == IF w = 8 THEN {0, 1, 171, 255} ELSE {0, 1, 1365, 2047}

\* IterExt::bits: BitIter { iter: self, read: 0, buffer: 0 }
InitBits ==
    /\ \E w \in Widths :
          /\ SIZE = w[1]
          /\ N = w[2]
          /\ items \in SeqsUpTo(ItemValues(w[1]), MaxItems)
    /\ iter = 0
    /\ read = 0
    /\ buffer = ZeroWord
    /\ rets = <<>>
    /\ B58Idle
    /\ KeyIdle
    /\ EthIdle

\* The calls of next() made after the first that returned None.
CallsAfterNone ==
    IF \E k \in 1..Len(rets) : rets[k].tag = "None"
    THEN Len(rets) - (CHOOSE k \in 1..Len(rets) :
                          rets[k].tag = "None" /\ \A m \in 1..(k - 1) : rets[m].tag = "Some")
    ELSE 0

\* The caller calls next() again, up to MaxAfterNone times after the first None.
Calling == CallsAfterNone < MaxAfterNone

\* An iteration of `while self.read < N` in which the iterator yields an item.
NextLoad ==
    /\ Calling
    /\ read < N
    /\ iter < Len(items)
    /\ read' = read + SIZE
    /\ buffer' = BitOr(buffer, PlaceItem(items[iter + 1], read + SIZE))
    /\ iter' = iter + 1
    /\ UNCHANGED <<SIZE, N, items, rets>>
    /\ UNCHANGED b58vars
    /\ UNCHANGED keyvars
    /\ UNCHANGED ethvars

\* An iteration in which the iterator is exhausted: read has been advanced when
\* `?` returns None.
NextExhausted ==
    /\ Calling
    /\ read < N
    /\ iter = Len(items)
    /\ read' = read + SIZE
    /\ rets' = Append(rets, None)
    /\ UNCHANGED <<SIZE, N, items, iter, buffer>>
    /\ UNCHANGED b58vars
    /\ UNCHANGED keyvars
    /\ UNCHANGED ethvars

\* The loop is over: out = buffer >> (64 - N), buffer <<= N, read -= N, Some(out).
NextEmit ==
    /\ Calling
    /\ read >= N
    /\ rets' = Append(rets, Some(BitsValue(Shr(buffer, WordBits - N))))
    /\ buffer' = Shl(buffer, N)
    /\ read' = read - N
    /\ UNCHANGED <<SIZE, N, items, iter>>
    /\ UNCHANGED b58vars
    /\ UNCHANGED keyvars
    /\ UNCHANGED ethvars

SpecBits == InitBits /\ [][NextLoad \/ NextExhausted \/ NextEmit]_vars


(***************************************************************************)
(* Reference arithmetic for the Base58 claims: the base-58 numeral of a    *)
(* big-endian byte string, by schoolbook long division by 58.              *)
(***************************************************************************)
\* Quotient (as bytes, same length) and remainder of a big-endian byte string by 58.
RECURSIVE DivMod58(_, _)
DivMod58(bytes, rem) ==
    IF bytes = <<>> THEN [q |-> <<>>, r |-> rem]
    ELSE LET cur  == rem * 256 + Head(bytes)
             rest == DivMod58(Tail(bytes), cur % 58)
         IN  [q |-> <<cur \div 58>> \o rest.q, r |-> rest.r]

AllZero(s) == \A k \in 1..Len(s) : s[k] = 0

\* The base-58 digits of the integer the bytes denote, most significant first,
\* without leading zero digits (the empty sequence for 0).
RECURSIVE ToBase58(_)
ToBase58(bytes) ==
    IF AllZero(bytes) THEN <<>>
    ELSE LET d == DivMod58(bytes, 0)
         IN  Append(ToBase58(d.q), d.r)

\* The number of leading 0x00 bytes.
RECURSIVE LeadingZeros(_)
LeadingZeros(s) ==
    IF s = <<>> \/ Head(s) # 0 THEN 0 ELSE 1 + LeadingZeros(Tail(s))

IsAlphabetChar(c) == \E k \in 1..Len(ALPHABET) : ALPHABET[k] = c

\* The base-58 digit a character of the alphabet stands for.
DigitOf(c) == (CHOOSE k \in 1..Len(ALPHABET) : ALPHABET[k] = c) - 1

\* C1: when encode has returned, its output is one '1' (ALPHABET[0]) per leading
\* 0x00 byte of the input, followed by the encoding of the remaining bytes; so
\* encode([0x00]) is "1".
C1_LeadingZerosBecomeOnes ==
    pc = "done" =>
        LET k == LeadingZeros(input)
        IN  out = [n \in 1..k |-> ALPHABET[1]]
                    \o MapAlphabet(ToBase58(SubSeq(input, k + 1, Len(input))))

\* C2: every digit of the buffer stays in 0..57; the carry x is 0 once index 0 of
\* the buffer has been written (the buffer of len*138/100 + 1 digits never
\* overflows, no digit is lost); and the returned characters, read as base-58
\* digits, are the base-58 numeral of the input read as a big-endian base-256
\* number (the empty string for the empty input).
C2_EncodeDenotesInput ==
    /\ \A k \in 1..Len(a) : a[k] \in 0..57
    /\ (pc = "while" /\ sat) => x = 0
    /\ pc = "done" =>
        /\ \A k \in 1..Len(out) : IsAlphabetChar(out[k])
        /\ [k \in 1..Len(out) |-> DigitOf(out[k])] = ToBase58(input)
        /\ (input = <<>> => out = <<>>)

\* C2 witness: an input of two or more bytes whose encoding fills the whole
\* buffer, index 0 included.
C2_Witness ==
    /\ pc = "done"
    /\ Len(input) >= 2
    /\ sat
    /\ Len(out) = BufLen(Len(input)) + 1

(***************************************************************************)
(* Extended keys: the claims.                                              *)
(***************************************************************************)
\* Two results of a call are the same outcome with the same value.
SameResult(r1, r2) == r1.tag = r2.tag /\ (r1.tag = "Some" => r1.val = r2.val)

\* C3: whenever derive(i) of a private key succeeds for a non-hardened i, derive(i)
\* of its public key succeeds too and returns the public projection of the
\* private child: the same depth, child number, parent fingerprint, chain code
\* and public point.
C3_PublicDerivationCommutes ==
    (/\ last.op = "derive"
     /\ last.self.key.kind = "secret"
     /\ last.arg.hi = 0
     /\ last.ret.tag = "Some") =>
        LET pub   == derive(public_key(last.self), last.arg)
            child == public_key(last.ret.val)
        IN  /\ pub.tag = "Some"
            /\ pub.val.depth = child.depth
            /\ pub.val.number = child.number
            /\ pub.val.fingerprint = child.fingerprint
            /\ pub.val.chain_code = child.chain_code
            /\ pub.val.key = child.key

\* C3 witness: a private key below the root has derived a non-hardened child.
C3_Witness ==
    /\ last.op = "derive"
    /\ last.self.key.kind = "secret"
    /\ last.self.depth >= 1
    /\ last.arg.hi = 0
    /\ last.ret.tag = "Some"

\* C4: derive(i) of a public key returns None for every i >= 2^31 and the caller
\* gets no child, while serialize_for_child of a private key returns Some for
\* the same index.
C4_HardenedPublicFails ==
    /\ (last.op = "derive" /\ last.self.key.kind = "public" /\ last.arg.hi = 1) =>
            (last.ret.tag = "None" /\ key = last.self)
    /\ (last.op = "derive" /\ last.self.key.kind = "secret" /\ last.arg.hi = 1) =>
            serialize_for_child(last.self.key, last.arg).tag = "Some"
    /\ \A i \in Indices :
            i.hi = 1 =>
                IF key.key.kind = "public"
                THEN derive(key, i).tag = "None"
                ELSE serialize_for_child(key.key, i).tag = "Some"

\* C4 witness: a public key below the root was asked for a hardened child.
C4_Witness ==
    /\ last.op = "derive"
    /\ last.self.key.kind = "public"
    /\ last.self.depth >= 1
    /\ last.arg.hi = 1
    /\ last.ret.tag = "None"

\* The results of the derive calls a left-to-right fold over the path makes, up
\* to and including the first that is not Some.
RECURSIVE DeriveChain(_, _)
DeriveChain(k, path) ==
    IF path = <<>> THEN <<>>
    ELSE LET r == derive(k, Head(path))
         IN  IF r.tag = "Some" THEN <<r>> \o DeriveChain(r.val, Tail(path)) ELSE <<r>>

\* C5: derive_path(p ++ q) is derive_path(p) followed by derive_path(q) on its
\* result, for every split of the path; it is None exactly when a step's derive
\* is None, and then no later index has been derived; and derive_path of the
\* empty path returns a key equal to the receiver.
C5_DerivePathFolds ==
    last.op = "derive_path" =>
        LET self  == last.self
            path  == last.arg
            chain == DeriveChain(self, path)
        IN  /\ \A n \in 0..Len(path) :
                LET first == derive_path(self, SubSeq(path, 1, n)).ret
                    rest  == SubSeq(path, n + 1, Len(path))
                IN  SameResult(last.ret,
                               IF first.tag = "Some" THEN derive_path(first.val, rest).ret
                               ELSE first)
            /\ last.ret.tag = "None" <=> \E n \in 1..Len(chain) : chain[n].tag = "None"
            /\ last.calls = SubSeq(path, 1, Len(chain))
            /\ last.ret.tag = "Some" => Len(chain) = Len(path)
            /\ path = <<>> => (last.ret.tag = "Some" /\ last.ret.val = self)

\* C5 witness: a path of two indices whose first derivation failed, so that the
\* second index was never derived.
C5_Witness ==
    /\ last.op = "derive_path"
    /\ Len(last.arg) = 2
    /\ last.ret.tag = "None"
    /\ last.calls = <<last.arg[1]>>

\* C6: a successful derive returns a key whose depth is the parent's depth plus
\* one, whose parent fingerprint is the parent's fingerprint, whose child number
\* is the index and whose chain code is the right half of the HMAC.
C6_ChildFields ==
    (last.op = "derive" /\ last.ret.tag = "Some") =>
        LET parent == last.self
            child  == last.ret.val
            ser    == serialize_for_child(parent.key, last.arg)
        IN  /\ child.depth = parent.depth + 1
            /\ child.fingerprint = fingerprint(parent.key)
            /\ child.number = last.arg
            /\ child.chain_code =
                   HmacSha512(parent.chain_code, ser.val \o ToBeBytes(last.arg)).IR

\* C7: derive, derive_path and child_mnemonic return a value or None; no call
\* panics.
C7_NoPanic == last.ret.tag # "Panic"

\* The five indices 2^31 + 83696968, 2^31 + 39, 2^31 + 0, 2^31 + 24 and, where it
\* is a u32, 2^31 + i.
Bip85Indices(i) ==
    <<U32(1, 83696968), U32(1, 39), U32(1, 0), U32(1, 24), U32(1 + i.hi, i.lo)>>

\* C8: child_mnemonic(i) of a root key calls derive with the indices
\* 2^31 + 83696968, 2^31 + 39, 2^31, 2^31 + 24, 2^31 + i in this order, each of
\* them hardened, and the key whose entropy makes the mnemonic has depth 5 and
\* child number 2^31 + i.
C8_Bip85PathHardened ==
    (last.op = "child_mnemonic" /\ last.self.depth = 0) =>
        /\ \A n \in 1..Len(last.calls) :
              /\ last.calls[n].hi = 1
              /\ last.calls[n] = Bip85Indices(last.arg)[n]
        /\ last.ret.tag = "Some" =>
              LET k == derive_path(last.self, last.calls).ret.val
              IN  /\ Len(last.calls) = 5
                  /\ k.depth = 5
                  /\ k.number.hi = 1 + last.arg.hi
                  /\ k.number.lo = last.arg.lo

\* C9: child_mnemonic returns None, deriving nothing, for a key of depth > 0; for
\* a key of depth 0 it returns None exactly when derive_path along the BIP85
\* path is None, and a mnemonic otherwise.
C9_ChildMnemonicAbsence ==
    last.op = "child_mnemonic" =>
        /\ last.self.depth > 0 => (last.ret.tag = "None" /\ last.calls = <<>>)
        /\ last.self.depth = 0 =>
              LET path == <<U32(1, 83696968), U32(1, 39), U32(1, 0), U32(1, 24),
                            AddU32(HARDENED_OFFSET, last.arg).val>>
                  k    == derive_path(last.self, path).ret
              IN  /\ last.ret.tag = "None" <=> k.tag = "None"
                  /\ last.ret.tag # "None" =>
                        /\ last.ret.tag = "Some"
                        /\ last.ret.val = Mnemonic_from_entropy(entropy(k.val).IL)

(***************************************************************************)
(* Address display: the claims.                                            *)
(***************************************************************************)
\* The value of a lowercase hex character.
HexVal(c) == IF c <= 57 THEN c - 48 ELSE c - 87

\* char::to_ascii_lowercase
ToAsciiLowercase(c) == IF c >= 65 /\ c <= 90 THEN c + 32 ELSE c

\* What fmt has written is "0x" and, for each pair taken, the character of buf,
\* in upper case where the hash digit at the same place is at least threshold.
DisplayedWith(threshold) ==
    /\ Len(f) = taken + 2
    /\ f[1] = 48
    /\ f[2] = 120
    /\ \A k \in 1..taken :
          f[k + 2] = IF HexVal(hash[k]) >= threshold THEN ToAsciiUppercase(buf[k])
                     ELSE buf[k]

\* C10 as stated: the character at position k is in upper case if and only if
\* hex digit k of the hash is >= 0xa.
C10_UpperFromTen == fpc \in {"loop", "done"} => DisplayedWith(10)

\* C10, amended: Display writes "0x" and the 40 hex characters of the address,
\* the character at position k in upper case if and only if hex digit k of
\* Keccak-256(lowercase hex of the address) is >= 8; decimal digits are left as
\* they are, and the lowercased output is the lowercase hex of the address.
C10_UpperFromEight ==
    /\ fpc \in {"loop", "done"} =>
          /\ DisplayedWith(8)
          /\ hash = HexEncode(Keccak256(HexEncode(addr)))
          /\ \A k \in 1..taken :
                /\ buf[k] <= 57 => f[k + 2] = buf[k]
                /\ ToAsciiLowercase(f[k + 2]) = buf[k]
    /\ fpc = "done" =>
          /\ Len(f) = 2 + 2 * AddressLen
          /\ [k \in 1..(2 * AddressLen) |-> ToAsciiLowercase(f[k + 2])] = HexEncode(addr)

\* C10 witness: a finished display in which a letter stands under a hash digit 8
\* or 9 and is in upper case, and a letter under a smaller digit is not.
C10_Witness ==
    /\ fpc = "done"
    /\ \E k \in 1..taken :
          /\ buf[k] >= 97
          /\ HexVal(hash[k]) \in {8, 9}
          /\ f[k + 2] = buf[k] - 32
    /\ \E k \in 1..taken :
          /\ buf[k] >= 97
          /\ HexVal(hash[k]) < 8
          /\ f[k + 2] = buf[k]

(***************************************************************************)
(* BitIter: the claims.                                                    *)
(***************************************************************************)
\* The place in rets of the first None, or one past its end.
FirstNone ==
    IF \E k \in 1..Len(rets) : rets[k].tag = "None"
    THEN CHOOSE k \in 1..Len(rets) :
             rets[k].tag = "None" /\ \A m \in 1..(k - 1) : rets[m].tag = "Some"
    ELSE Len(rets) + 1

\* The groups next() returned before its first None.
Groups == [k \in 1..(FirstNone - 1) |-> rets[k].val]

\* The bits of the input items, most significant first, one item after another.
InputBits ==
    [b \in 1..(Len(items) * SIZE) |->
        BitsOf(items[((b - 1) \div SIZE) + 1], SIZE)[((b - 1) % SIZE) + 1]]

\* The bits of the groups, most significant first, one group after another.
GroupBits ==
    [b \in 1..(Len(Groups) * N) |->
        BitsOf(Groups[((b - 1) \div N) + 1], N)[((b - 1) % N) + 1]]

\* C11: the groups next() returns before its first None are each in 0..2^N-1,
\* their bits are the first bits of the input, most significant first, and
\* there are floor(k*SIZE/N) of them once None is returned; until then the top
\* read bits of the buffer are the input bits taken and not yet returned, to go
\* into the next group, and read never exceeds the 64 bits of the buffer.
C11_RepacksMsbFirst ==
    LET g == Len(Groups)
    IN  /\ \A k \in 1..g : Groups[k] \in 0..(2 ^ N - 1)
        /\ g <= (Len(items) * SIZE) \div N
        /\ GroupBits = SubSeq(InputBits, 1, g * N)
        /\ FirstNone <= Len(rets) => g = (Len(items) * SIZE) \div N
        /\ read <= WordBits
        /\ FirstNone > Len(rets) =>
              /\ read = iter * SIZE - g * N
              /\ \A k \in 1..WordBits :
                    buffer[k] = IF k <= read THEN InputBits[g * N + k] ELSE 0

\* C11 witness: three bytes have been repacked into two 11-bit groups, the second
\* made of bits of two bytes, and next() has returned None.
C11_Witness ==
    /\ SIZE = 8
    /\ N = 11
    /\ Len(items) = 3
    /\ FirstNone = 3
    /\ FirstNone <= Len(rets)
    /\ Groups[2] # 0
    /\ items[2] # 0
    /\ items[3] # 0

\* The number of groups next() has returned.
Emitted == Cardinality({k \in 1..Len(rets) : rets[k].tag = "Some"})

\* C12: read is the number of input bits held in the buffer and not yet
\* returned, and once next() has returned None every later call returns None.
C12_ReadCountsHeldBits ==
    /\ read = iter * SIZE - Emitted * N
    /\ \A m \in 1..Len(rets) :
          rets[m].tag = "None" => \A k \in m..Len(rets) : rets[k].tag = "None"

====
